---- MODULE Spec2Model ----
(***************************************************************************)
(* Model of classifiers/nmc.py: the Nearest Mean Centroid classifier.      *)
(*                                                                         *)
(* An NMC object holds two private fields, _centroids and _class_labels.   *)
(* fit(xtr, ytr) estimates one centroid per class, predict(xts) returns    *)
(* for every row of xts the position of the centroid with the highest      *)
(* score 1 / (1e-3 + distance).                                            *)
(*                                                                         *)
(* Numbers.  Samples are vectors of small naturals.  A centroid row is     *)
(* kept as an exact fraction [num |-> vector, den |-> n] in lowest terms   *)
(* (the mean of n rows is their sum over n); den = 0 is the row of NaN     *)
(* that numpy's mean of an empty selection yields.  Distances are compared *)
(* exactly, by cross-multiplying squared distances.                        *)
(***************************************************************************)
EXTENDS Integers, Sequences, FiniteSets, TLC

\* ---- bounds of the model ------------------------------------------------
MaxN == 2          \* rows of a matrix handed to fit: 0..MaxN
MaxM == 2          \* rows of a matrix handed to predict: 0..MaxM
MaxVal == 1        \* feature values range over 0..MaxVal
MaxLabel == 1      \* training labels range over 0..MaxLabel

Vals == 0 .. MaxVal
Labels == 0 .. MaxLabel

\* A matrix keeps its shape (rows, columns) apart from its rows, as an
\* ndarray does: a matrix of no rows still has a number of columns.
Matrix(rows, d) == [shape |-> <<Len(rows), d>>, data |-> rows]

\* the matrices of n rows the model hands over: samples of a single feature
MatricesOf(n) == {Matrix(r, 1) : r \in [1 .. n -> [1 .. 1 -> Vals]]}

\* the label vectors of n entries, of at most MaxN
LabelVectorsOf(n) == IF n < 0 \/ n > MaxN THEN {} ELSE [1 .. n -> Labels]

\* the arguments fit is called with: a matrix of at most MaxN rows with a
\* label per row, or with one label too few or too many
FitInputs ==
    UNION {MatricesOf(n) \X (LabelVectorsOf(n - 1) \cup LabelVectorsOf(n)
                                \cup LabelVectorsOf(n + 1)) : n \in 0 .. MaxN}

\* the arguments predict is called with: a matrix of at most MaxM rows
PredictInputs == UNION {MatricesOf(m) : m \in 0 .. MaxM}

NoMatrix == Matrix(<<>>, 0)

\* ---- arithmetic -----------------------------------------------------------
Abs(a) == IF a < 0 THEN -a ELSE a

RECURSIVE Gcd(_, _)
Gcd(a, b) == IF b = 0 THEN a ELSE Gcd(b, a % b)

\* gcd of g and every entry of the vector v
GcdAll(v, g) ==
    LET RECURSIVE Acc(_)
        Acc(j) == IF j = 0 THEN g ELSE Gcd(Abs(v[j]), Acc(j - 1))
    IN  Acc(Len(v))

\* the fraction num/den over a common denominator, in lowest terms
Frac(num, den) ==
    LET g == GcdAll(num, den)
    IN  [num |-> [j \in 1 .. Len(num) |-> num[j] \div g], den |-> den \div g]

\* a row of NaN of d columns
NaNRow(d) == [num |-> [j \in 1 .. d |-> 0], den |-> 0]

\* a row of np.zeros of d columns
ZeroRow(d) == [num |-> [j \in 1 .. d |-> 0], den |-> 1]

IsNaN(row) == row.den = 0

\* the sum of column j over the rows
ColumnSum(rows, j) ==
    LET RECURSIVE Acc(_)
        Acc(i) == IF i = 0 THEN 0 ELSE rows[i][j] + Acc(i - 1)
    IN  Acc(Len(rows))

\* xtr[ytr == k, :] : the rows of `rows` at the positions where ytr holds k
SelectRows(rows, ytr, k) ==
    LET RECURSIVE From(_)
        From(i) == IF i > Len(rows) THEN <<>>
                   ELSE IF ytr[i] = k THEN <<rows[i]>> \o From(i + 1)
                   ELSE From(i + 1)
    IN  From(1)

\* np.mean(rows, axis=0): NaN in every column when no row is selected
Mean(rows, d) ==
    IF rows = <<>> THEN NaNRow(d)
    ELSE Frac([j \in 1 .. d |-> ColumnSum(rows, j)], Len(rows))

\* ---- the object's state ---------------------------------------------------
VARIABLES
    centroids,      \* self._centroids
    class_labels,   \* self._class_labels
    call,           \* the last call made on the object, its arguments and outcome
    fitted_ok,      \* some call of fit has returned normally
    refit           \* the last call is a fit that returned normally and repeats
                    \* the arguments of the call right before it, also a fit

vars == <<centroids, class_labels, call, fitted_ok, refit>>

\* Python's None, for a field that holds a table otherwise
None == [isNone |-> TRUE, shape |-> <<0, 0>>, data |-> <<>>]

\* an ndarray of the given rows, each of d columns
Array(rows, d) == [isNone |-> FALSE, shape |-> <<Len(rows), d>>, data |-> rows]

\* a call record: op is "new", "fit" or "predict"
Call(op, xtr, ytr, xts, outcome, ret) ==
    [op |-> op, xtr |-> xtr, ytr |-> ytr, xts |-> xts, outcome |-> outcome, ret |-> ret]

\* NMC(): both fields are None
Init ==
    /\ centroids = None
    /\ class_labels = None
    /\ call = Call("new", NoMatrix, <<>>, NoMatrix, "ok", <<>>)
    /\ fitted_ok = FALSE
    /\ refit = FALSE

\* ---- fit --------------------------------------------------------------------
\* the set of the values in ytr
LabelSet(ytr) == {ytr[i] : i \in 1 .. Len(ytr)}

\* np.unique(ytr): the distinct labels, ascending
Unique(ytr) ==
    LET RECURSIVE Sorted(_)
        Sorted(S) == IF S = {} THEN <<>>
                     ELSE LET m == CHOOSE a \in S : \A b \in S : a <= b
                          IN  <<m>> \o Sorted(S \ {m})
    IN  Sorted(LabelSet(ytr))

\* np.unique(ytr).size: the number of distinct labels
NClasses(ytr) == Cardinality(LabelSet(ytr))

\* the boolean mask ytr == k indexes the rows of xtr only when it has one
\* entry per row; numpy raises IndexError otherwise.  The loop body runs
\* only when there is a class, and fails at its first pass.
FitRaises(xtr, ytr) ==
    /\ Len(ytr) # xtr.shape[1]
    /\ NClasses(ytr) > 0

\* np.zeros(shape=(n_classes, n_dimensions))
Zeros(n_classes, n_dimensions) ==
    Array([k \in 1 .. n_classes |-> ZeroRow(n_dimensions)], n_dimensions)

\* self._centroids when fit(xtr, ytr) is left, normally or by the exception:
\* the table is allocated and assigned before the loop fills it, row k with
\* the mean of the rows whose label equals the position k.
FitCentroids(xtr, ytr) ==
    LET n_dimensions == xtr.shape[2]
        n_classes == NClasses(ytr)
    IN  IF FitRaises(xtr, ytr)
        THEN Zeros(n_classes, n_dimensions)
        ELSE Array([k \in 1 .. n_classes |->
                       Mean(SelectRows(xtr.data, ytr, k - 1), n_dimensions)],
                   n_dimensions)

FitOutcome(xtr, ytr) == IF FitRaises(xtr, ytr) THEN "IndexError" ELSE "ok"

\* What a call fit(xtr, ytr) does: the table it leaves in self._centroids
\* and how it ends.  Neither depends on the fields' earlier values.
FitCall(xtr, ytr) ==
    [xtr |-> xtr, ytr |-> ytr,
     centroids |-> FitCentroids(xtr, ytr),
     outcome |-> FitOutcome(xtr, ytr)]

\* the calls of fit the model makes
FitCalls == {FitCall(in[1], in[2]) : in \in FitInputs}

\* the sum of two centroid rows, NaN when either is
AddRows(a, b) ==
    IF IsNaN(a) \/ IsNaN(b) THEN NaNRow(Len(a.num))
    ELSE Frac([j \in 1 .. Len(a.num) |-> a.num[j] * b.den + b.num[j] * a.den],
              a.den * b.den)

\* a fit that reuses a stored table of the right shape in place of a fresh
\* np.zeros and adds the class means onto its rows
FitAccumulates(f) ==
    LET reuse == /\ ~centroids.isNone
                 /\ centroids.shape = f.centroids.shape
                 /\ f.outcome = "ok"
    IN  /\ centroids' = IF reuse
                        THEN Array([k \in 1 .. Len(f.centroids.data) |->
                                       AddRows(centroids.data[k], f.centroids.data[k])],
                                   f.centroids.shape[2])
                        ELSE f.centroids
        /\ class_labels' = class_labels
        /\ call' = Call("fit", f.xtr, f.ytr, NoMatrix, f.outcome, <<>>)
        /\ fitted_ok' = (fitted_ok \/ f.outcome = "ok")
        /\ refit' = (/\ f.outcome = "ok"
                     /\ call.op = "fit" /\ call.xtr = f.xtr /\ call.ytr = f.ytr)

\* the call f of fit, made on the object
Fit(f) ==
    /\ centroids' = f.centroids
    /\ class_labels' = class_labels
    /\ call' = Call("fit", f.xtr, f.ytr, NoMatrix, f.outcome, <<>>)
    /\ fitted_ok' = (fitted_ok \/ f.outcome = "ok")
    /\ refit' = (/\ f.outcome = "ok"
                 /\ call.op = "fit" /\ call.xtr = f.xtr /\ call.ytr = f.ytr)

\* ---- predict ----------------------------------------------------------------
\* the squared distance from the sample x to the centroid row, times row.den^2
SqDistNum(x, row) ==
    LET RECURSIVE Acc(_)
        Acc(j) == IF j = 0 THEN 0
                  ELSE (x[j] * row.den - row.num[j]) * (x[j] * row.den - row.num[j])
                       + Acc(j - 1)
    IN  Acc(Len(x))

\* dist(x, a) < dist(x, b), for rows free of NaN
DistLess(x, a, b) ==
    SqDistNum(x, a) * b.den * b.den < SqDistNum(x, b) * a.den * a.den

\* scores = 1 / (1e-3 + dist) decreases as dist grows:
\* score(x, a) > score(x, b) exactly when dist(x, a) < dist(x, b)
ScoreGreater(x, a, b) == DistLess(x, a, b)

\* a scan that moves on to a later equal score: the last maximum
RECURSIVE ArgMaxScanLast(_, _, _, _)
ArgMaxScanLast(x, rows, j, best) ==
    IF j > Len(rows) THEN best - 1
    ELSE IF ~ScoreGreater(x, rows[best], rows[j])
         THEN ArgMaxScanLast(x, rows, j + 1, j)
         ELSE ArgMaxScanLast(x, rows, j + 1, best)

\* np.argmax over one row of scores: the scan keeps the first maximum.
\* Positions are those of Python, from 0.
RECURSIVE ArgMaxScan(_, _, _, _)
ArgMaxScan(x, rows, j, best) ==
    IF j > Len(rows) THEN best - 1
    ELSE IF ScoreGreater(x, rows[j], rows[best])
         THEN ArgMaxScan(x, rows, j + 1, j)
         ELSE ArgMaxScan(x, rows, j + 1, best)

ArgMax(x, rows) == ArgMaxScan(x, rows, 2, 1)

\* sklearn's pairwise_distances validates both arrays and raises ValueError
\* on an array of no rows, on a NaN entry, and on differing column counts.
PairwiseDistancesRaises(xts, cent) ==
    \/ xts.shape[1] = 0
    \/ cent.shape[1] = 0
    \/ \E k \in 1 .. Len(cent.data) : IsNaN(cent.data[k])
    \/ xts.shape[2] # cent.shape[2]

PredictOutcome(cent, xts) ==
    IF cent.isNone THEN "ValueError: not fitted"
    ELSE IF PairwiseDistancesRaises(xts, cent) THEN "ValueError: input"
    ELSE "ok"

\* ypred, one centroid position per row of xts
PredictReturn(cent, xts) ==
    IF PredictOutcome(cent, xts) = "ok"
    THEN [m \in 1 .. Len(xts.data) |-> ArgMax(xts.data[m], cent.data)]
    ELSE <<>>

\* a predict that shifts the stored table to the origin in place before it
\* measures: the field is left holding zeros of the table's shape
PredictOverwrites(xts) ==
    /\ centroids' = IF PredictOutcome(centroids, xts) = "ok"
                    THEN Zeros(centroids.shape[1], centroids.shape[2])
                    ELSE centroids
    /\ class_labels' = class_labels
    /\ call' = Call("predict", NoMatrix, <<>>, xts,
                    PredictOutcome(centroids, xts), PredictReturn(centroids, xts))
    /\ fitted_ok' = fitted_ok
    /\ refit' = FALSE

Predict(xts) ==
    /\ centroids' = centroids
    /\ class_labels' = class_labels
    /\ call' = Call("predict", NoMatrix, <<>>, xts,
                    PredictOutcome(centroids, xts), PredictReturn(centroids, xts))
    /\ fitted_ok' = fitted_ok
    /\ refit' = FALSE

Next ==
    \/ \E f \in FitCalls : Fit(f)
    \/ \E xts \in PredictInputs : Predict(xts)

Spec == Init /\ [][Next]_vars

\* ---- the properties --------------------------------------------------------
\* the class label set of the training labels ytr: distinct, ascending
ClassLabelSet(ytr) == Unique(ytr)

\* the state is the one a call of fit that returned normally has left
AfterFitOk == call.op = "fit" /\ call.outcome = "ok"

\* the distance from x to the row a is below the distance to the row b; as
\* for floating point numbers, no comparison with a NaN distance holds
StrictlyCloser(x, a, b) == ~IsNaN(a) /\ ~IsNaN(b) /\ DistLess(x, a, b)

\* C1: after a fit that succeeds, the stored table has one row per distinct
\* training label and row i is the elementwise mean of the training rows
\* whose label is the i-th smallest distinct label, whatever the labels are.
C1_CentroidsAreClassMeans ==
    AfterFitOk =>
        LET cls == ClassLabelSet(call.ytr)
        IN  /\ ~centroids.isNone
            /\ Len(centroids.data) = Len(cls)
            /\ \A i \in 1 .. Len(cls) :
                  centroids.data[i] =
                      Mean(SelectRows(call.xtr.data, call.ytr, cls[i]),
                           call.xtr.shape[2])

\* C2: right after a fit that succeeded, predict([X]) for a sample X that is
\* strictly closer to centroid i than to every other centroid returns the
\* i-th smallest distinct training label.
C2_NearestCentroidLabel ==
    [][(/\ AfterFitOk
        /\ call'.op = "predict"
        /\ call'.xts.shape = <<1, centroids.shape[2]>>)
       => \A i \in 1 .. Len(centroids.data) :
             (\A j \in 1 .. Len(centroids.data) :
                 j # i => StrictlyCloser(call'.xts.data[1], centroids.data[i],
                                         centroids.data[j]))
             => /\ call'.outcome = "ok"
                /\ call'.ret = <<ClassLabelSet(call.ytr)[i]>>]_vars

\* C3: as long as no fit has returned normally, every predict fails and
\* returns no labels.
C3_UnfittedPredictFails ==
    (call.op = "predict" /\ ~fitted_ok)
        => (call.outcome # "ok" /\ call.ret = <<>>)

\* C4: the centroid table and the class label set are both absent, or both
\* present and of the same length.
C4_TablesAligned ==
    \/ centroids.isNone /\ class_labels.isNone
    \/ /\ ~centroids.isNone
       /\ ~class_labels.isNone
       /\ centroids.shape[1] = class_labels.shape[1]

\* C5: a call that fails leaves the centroid table and the class label set
\* as they were before the call.
C5_FailureKeepsState ==
    [][call'.outcome # "ok"
       => (centroids' = centroids /\ class_labels' = class_labels)]_vars

\* C6: a fit whose number of labels differs from its number of rows, or that
\* has no row, fails, and an unfitted classifier stays unfitted.
C6_FitRejectsBadShapes ==
    [][(/\ call'.op = "fit"
        /\ \/ Len(call'.ytr) # call'.xtr.shape[1]
           \/ call'.xtr.shape[1] = 0)
       => /\ call'.outcome # "ok"
          /\ (centroids.isNone => centroids'.isNone)]_vars

\* C7: a call of predict, failing or not, leaves the centroid table and the
\* class label set unchanged.
C7_PredictKeepsState ==
    [][call'.op = "predict"
       => (centroids' = centroids /\ class_labels' = class_labels)]_vars

C7_Witness ==
    /\ call.op = "predict"
    /\ call.outcome = "ok"
    /\ Len(centroids.data) = 2
    /\ centroids.data[1] # centroids.data[2]

\* the positions (from 1) of the centroids nearest to x: those whose distance
\* is at most every centroid's distance
Nearest(x, rows) ==
    {k \in 1 .. Len(rows) :
        \A j \in 1 .. Len(rows) :
            ~IsNaN(rows[k]) /\ ~IsNaN(rows[j]) /\ ~DistLess(x, rows[j], rows[k])}

\* the least member of a non-empty set of numbers
Least(S) == CHOOSE a \in S : \A b \in S : a <= b

\* C8: on a fitted classifier, a sample that has several nearest centroids,
\* all at the same distance, is given the lowest of their class indices.
C8_TieTakesLowestIndex ==
    (call.op = "predict" /\ ~centroids.isNone)
        => \A m \in 1 .. Len(call.xts.data) :
              LET near == Nearest(call.xts.data[m], centroids.data)
              IN  Cardinality(near) >= 2
                  => /\ call.outcome = "ok"
                     /\ call.ret[m] = Least(near) - 1

\* a predict that returned a position for a sample with two nearest centroids
C8_Witness ==
    /\ call.op = "predict"
    /\ call.outcome = "ok"
    /\ \E m \in 1 .. Len(call.xts.data) :
          LET near == Nearest(call.xts.data[m], centroids.data)
          IN  Cardinality(near) >= 2 /\ call.ret[m] = Least(near) - 1

\* every label of ytr labels exactly one row
OneSamplePerClass(xtr, ytr) ==
    /\ xtr.shape[1] >= 1
    /\ Len(ytr) = xtr.shape[1]
    /\ NClasses(ytr) = Len(ytr)

\* C9: after a fit on a training set of one sample per class, predict on the
\* training samples returns the training labels, in order.
C9_OneSamplePerClassRoundTrip ==
    [][(/\ AfterFitOk
        /\ OneSamplePerClass(call.xtr, call.ytr)
        /\ call'.op = "predict"
        /\ call'.xts = call.xtr)
       => (call'.outcome = "ok" /\ call'.ret = call.ytr)]_vars

\* C10: a fit that repeats the arguments of the fit right before it leaves
\* the centroid table and the class label set as that fit left them,
\* whatever the state the first of the two started from.
C10_FitIdempotent ==
    [][(/\ call.op = "fit"
        /\ call'.op = "fit"
        /\ call'.xtr = call.xtr
        /\ call'.ytr = call.ytr)
       => (centroids' = centroids /\ class_labels' = class_labels)]_vars

C10_Witness ==
    /\ refit
    /\ call.outcome = "ok"
    /\ Len(centroids.data) = 2
    /\ \A k \in 1 .. 2 : ~IsNaN(centroids.data[k])

====
